---- MODULE Spec2Model ----
(***************************************************************************)
(* SMARTCLI: a terminal assistant that asks a language model for a shell   *)
(* command and runs it after the human confirms.  The repository holds     *)
(* three generations of the same control loop:                             *)
(*   "main"  src/main.py            (first version)                        *)
(*   "cli2"  src/2Smartcli/main.py  (class CLIAssistant)                   *)
(*   "scli"  src/smartcli/scli.py   (packaged version)                     *)
(* The model runs one of them, chosen at start-up (variable variant).      *)
(*                                                                         *)
(* Text is a sequence of one-character strings.  A model reply is a        *)
(* sequence of lexical tokens: braces, prose words, a bare scalar and      *)
(* object members ("key": value); the commas between members are not       *)
(* modelled.                                                               *)
(***************************************************************************)
EXTENDS Naturals, Sequences, FiniteSets, TLC

VARIABLES
    variant,            \* which program of the repository is running
    pc,                 \* position of the control loop
    history,            \* chat_history (main, cli2) / main_history_log (scli)
    file_session_data,  \* scli: the file context (set of loaded file names)
    chat_session,       \* scli: chat_history local to enter_chat_mode
    query,              \* the query of the current turn
    raw,                \* last raw model reply
    sug,                \* what the parser returned for it
    pending,            \* command waiting at a confirmation prompt
    calls,              \* model calls issued in the current turn
    blocked,            \* the turn was submitted over the token budget
    shown,              \* command texts displayed in the current turn
    executed,           \* shell executions of the current turn, in order
    decision,           \* last line typed at a confirmation prompt, or the
                        \* line that left chat mode
    edited,             \* scli: last line left in the edit prompt
    prompt,             \* the prompt of the last model call of the turn
    outcome,            \* what the controller last reported
    ptext, pvariant, presult,   \* parser harness: input text, program, result
    vcmd, vlist, vresult,       \* validator harness: command, allow-list, result
    fs_data, fs_query, fs_prompt    \* prompt harness: files, query, rendered prompt

vars == <<variant, pc, history, file_session_data, chat_session, query, raw, sug,
          pending, calls, blocked, shown, executed, decision, edited, prompt,
          outcome, ptext, pvariant, presult, vcmd, vlist, vresult,
          fs_data, fs_query, fs_prompt>>

ctlVars == <<variant, pc, history, file_session_data, chat_session, query, raw, sug,
             pending, calls, blocked, shown, executed, decision, edited, prompt,
             outcome>>
parseVars == <<ptext, pvariant, presult>>
validVars == <<vcmd, vlist, vresult>>
promptVars == <<fs_data, fs_query, fs_prompt>>

Variants == {"main", "cli2", "scli"}

-----------------------------------------------------------------------------
(* Bounds of the model *)

\* longest reply explored by the parser harness, in tokens
MaxLen == 5
\* most messages a history holds before the model stops submitting queries
MaxHistory == 4
\* most files the prompt harness loads into the file context
MaxFiles == 2
\* how far the longest file content of the prompt harness exceeds the cap
MaxOver == 2

-----------------------------------------------------------------------------
(* Text *)

docker_ps == <<"d","o","c","k","e","r"," ","p","s">>
rm_rf == <<"r","m"," ","-","r","f"," ","/">>
ls_cmd == <<"l","s">>
ls_padded == <<" ","l","s"," ">>
lsblk == <<"l","s","b","l","k">>
blank == <<" ">>
which_image == <<"W","h","i","c","h","?">>
explanation == <<"o","k">>

RECURSIVE lstrip(_)
lstrip(s) == IF s # <<>> /\ Head(s) = " " THEN lstrip(Tail(s)) ELSE s

RECURSIVE rstrip(_)
rstrip(s) == IF s # <<>> /\ s[Len(s)] = " " THEN rstrip(SubSeq(s, 1, Len(s) - 1)) ELSE s

\* str.strip()
strip(s) == rstrip(lstrip(s))

\* str.lower() on the one-letter answers the prompts compare with
lower(s) == [i \in 1..Len(s) |-> CASE s[i] = "Y" -> "y"
                                   [] s[i] = "N" -> "n"
                                   [] s[i] = "C" -> "c"
                                   [] OTHER -> s[i]]

\* str.startswith(prefix)
startswith(s, prefix) ==
    Len(prefix) <= Len(s) /\ SubSeq(s, 1, Len(prefix)) = prefix

-----------------------------------------------------------------------------
(* JSON values and Python's view of them *)

Str(s) == [type |-> "str", s |-> s, b |-> FALSE]
Bool(b) == [type |-> "bool", s |-> <<>>, b |-> b]
Num == [type |-> "num", s |-> <<>>, b |-> TRUE]
Obj == [type |-> "obj", s |-> <<>>, b |-> TRUE]
None == [type |-> "none", s |-> <<>>, b |-> FALSE]
\* marks a key the dict does not hold
Absent == [type |-> "absent", s |-> <<>>, b |-> FALSE]

\* bool(v): the truth value `if v` / `if not v` tests
Truthy(v) ==
    CASE v.type = "str" -> v.s # <<>>
      [] v.type = "bool" -> v.b
      [] v.type = "num" -> TRUE
      [] v.type = "obj" -> TRUE
      [] OTHER -> FALSE

\* the keys a decoded object may hold: the five of the schema and two unknown ones
Keys == {"response", "command", "needs_output", "pre_command", "next_question",
         "note", "extra"}

\* the empty dict {}
EmptyDict == [k \in Keys |-> Absent]

\* len(d) == 0, what `not parsed` tests on a dict
IsEmptyDict(d) == \A k \in Keys : d[k] = Absent

\* dict.get(key, default)
Get(d, key, default) == IF d[key] = Absent THEN default ELSE d[key]

-----------------------------------------------------------------------------
(* Tokens of a model reply *)

LB == "{"
RB == "}"
Prose == "x"
Scalar == "42"
Nested == "extra:"

\* the members "key": value a reply may carry
Member ==
    [ cmd_docker |-> [key |-> "command", val |-> Str(docker_ps)],
      cmd_rm     |-> [key |-> "command", val |-> Str(rm_rf)],
      cmd_pad    |-> [key |-> "command", val |-> Str(ls_padded)],
      cmd_empty  |-> [key |-> "command", val |-> Str(<<>>)],
      cmd_num    |-> [key |-> "command", val |-> Num],
      resp       |-> [key |-> "response", val |-> Str(explanation)],
      needs      |-> [key |-> "needs_output", val |-> Bool(TRUE)],
      needs_no   |-> [key |-> "needs_output", val |-> Bool(FALSE)],
      pre_ls     |-> [key |-> "pre_command", val |-> Str(ls_cmd)],
      pre_rm     |-> [key |-> "pre_command", val |-> Str(rm_rf)],
      pre_empty  |-> [key |-> "pre_command", val |-> Str(<<>>)],
      nq         |-> [key |-> "next_question", val |-> Str(which_image)],
      nq_empty   |-> [key |-> "next_question", val |-> Str(<<>>)],
      unknown    |-> [key |-> "note", val |-> Str(explanation)] ]

MemberTokens == DOMAIN Member

-----------------------------------------------------------------------------
(* json.loads and the three parsers *)

\* s is one JSON object: { members }, a member being "key": value or "extra": {..}
IsObject(s) ==
    /\ Len(s) >= 2
    /\ s[1] = LB
    /\ s[Len(s)] = RB
    /\ \A i \in 1..Len(s) : s[i] \in {LB, RB, Nested} \cup MemberTokens
    /\ \A i \in 1..(Len(s) - 1) :
          Cardinality({j \in 1..i : s[j] = LB}) > Cardinality({j \in 1..i : s[j] = RB})
    /\ Cardinality({j \in 1..Len(s) : s[j] = LB}) = Cardinality({j \in 1..Len(s) : s[j] = RB})
    /\ \A i \in 2..Len(s) : s[i] = LB => s[i - 1] = Nested
    /\ \A i \in 1..Len(s) : s[i] = Nested => (i < Len(s) /\ s[i + 1] = LB)

\* the top-level members of object s that set key k, by position
Setters(s, k) ==
    {i \in 2..(Len(s) - 1) :
        /\ Cardinality({j \in 1..(i - 1) : s[j] = LB}) =
             Cardinality({j \in 1..(i - 1) : s[j] = RB}) + 1
        /\ \/ s[i] \in MemberTokens /\ Member[s[i]].key = k
           \/ s[i] = Nested /\ k = "extra"}

Last(S) == CHOOSE i \in S : \A j \in S : j <= i

\* the dict json.loads builds from object s (a repeated key keeps its last value)
DictOf(s) ==
    [k \in Keys |->
        IF Setters(s, k) = {} THEN Absent
        ELSE IF s[Last(Setters(s, k))] = Nested THEN Obj
        ELSE Member[s[Last(Setters(s, k))]].val]

\* json.loads(s): a dict, a non-dict value, or JSONDecodeError
json_loads(s) ==
    IF IsObject(s) THEN [kind |-> "dict", dict |-> DictOf(s)]
    ELSE IF s = <<Scalar>> THEN [kind |-> "scalar", dict |-> EmptyDict]
    ELSE [kind |-> "error", dict |-> EmptyDict]

\* re.search(r"\{.*\}", text, re.DOTALL): greedy, from the first { to the last }
HasMatch(text) ==
    \E i, j \in 1..Len(text) : i < j /\ text[i] = LB /\ text[j] = RB

FirstLB(text) == CHOOSE i \in 1..Len(text) :
    text[i] = LB /\ \A j \in 1..(i - 1) : text[j] # LB

LastRB(text) == CHOOSE i \in 1..Len(text) :
    text[i] = RB /\ \A j \in (i + 1)..Len(text) : text[j] # RB

re_search(text) == SubSeq(text, FirstLB(text), LastRB(text))

\* what a parser hands back: kind "ok" (a decoded reply), "none" (the failure
\* value None / (None, None)) or "fault" (an exception leaves the parser)
ParseOk(d, c, r) == [kind |-> "ok", dict |-> d, command |-> c, response |-> r]
ParseNone == [kind |-> "none", dict |-> EmptyDict, command |-> <<>>, response |-> <<>>]
ParseFault == [kind |-> "fault", dict |-> EmptyDict, command |-> <<>>, response |-> <<>>]

\* parsed.get(key, "").strip() succeeds only on a str
CanStrip(d, key) == Get(d, key, Str(<<>>)).type = "str"
StripOf(d, key) == strip(Get(d, key, Str(<<>>)).s)

\* src/main.py extract_command_and_response: json.loads of the whole reply;
\* only JSONDecodeError is caught
main_extract(text) ==
    LET j == json_loads(text) IN
    IF j.kind = "error" THEN ParseNone
    ELSE IF j.kind = "scalar" THEN ParseFault
    ELSE IF ~(CanStrip(j.dict, "command") /\ CanStrip(j.dict, "response")) THEN ParseFault
    ELSE ParseOk(j.dict, StripOf(j.dict, "command"), StripOf(j.dict, "response"))

\* src/smartcli/scli.py extract_command_and_response: greedy regex, then
\* json.loads of the match; every Exception is caught
scli_extract(text) ==
    IF ~HasMatch(text) THEN ParseNone
    ELSE LET j == json_loads(re_search(text)) IN
         IF j.kind # "dict" THEN ParseNone
         ELSE IF ~(CanStrip(j.dict, "command") /\ CanStrip(j.dict, "response")) THEN ParseNone
         ELSE ParseOk(j.dict, StripOf(j.dict, "command"), StripOf(j.dict, "response"))

\* src/2Smartcli/main.py parse_llm_json: greedy regex, then json.loads of the
\* match; returns the dict itself, fields untouched
parse_llm_json(text) ==
    IF ~HasMatch(text) THEN ParseNone
    ELSE LET j == json_loads(re_search(text)) IN
         IF j.kind # "dict" THEN ParseNone
         ELSE ParseOk(j.dict, Get(j.dict, "command", Str(<<>>)).s,
                      Get(j.dict, "response", Str(<<>>)).s)

-----------------------------------------------------------------------------
(* Parser harness: every reply of at most MaxLen tokens through every parser *)

ParseAlphabet == {LB, RB, Prose, Scalar, Nested, "cmd_docker", "cmd_pad", "cmd_num"}

Texts == UNION {[1..n -> ParseAlphabet] : n \in 0..MaxLen}

NoResult == [kind |-> "unparsed", dict |-> EmptyDict, command |-> <<>>, response |-> <<>>]

ParseInitVals ==
    /\ pvariant = "none"
    /\ presult = NoResult

ParseIdle ==
    /\ ptext = <<>>
    /\ ParseInitVals

RunMainParser ==
    /\ pvariant = "none"
    /\ pvariant' = "main"
    /\ presult' = main_extract(ptext)
    /\ UNCHANGED ptext

RunCli2Parser ==
    /\ pvariant = "none"
    /\ pvariant' = "cli2"
    /\ presult' = parse_llm_json(ptext)
    /\ UNCHANGED ptext

RunScliParser ==
    /\ pvariant = "none"
    /\ pvariant' = "scli"
    /\ presult' = scli_extract(ptext)
    /\ UNCHANGED ptext

-----------------------------------------------------------------------------
(* The allow-list validator of src/2Smartcli/main.py *)

aws == <<"a","w","s">>
kubectl == <<"k","u","b","e","c","t","l">>
docker == <<"d","o","c","k","e","r">>
cat == <<"c","a","t">>

\* allowed_commands = ["aws", "kubectl", "docker", "ls", "cat"]
allowed_commands == {aws, kubectl, docker, ls_cmd, cat}

\* any(cmd.startswith(allowed) for allowed in <list>)
any_startswith(cmd, allowed) == \E a \in allowed : startswith(cmd, a)

\* a validator that lets every command through
validate_anything(cmd) == TRUE

\* validate_command(cmd) on a str
validate_command(cmd) == any_startswith(cmd, allowed_commands)

(* Validator harness: the expression of validate_command over every command and
   every list of program names *)

VCommands == {docker_ps, rm_rf, ls_cmd, ls_padded, lsblk, <<>>, aws, cat}

ValidIdle ==
    /\ vcmd = <<>>
    /\ vlist = {}
    /\ vresult = "none"

RunValidator ==
    /\ vresult = "none"
    /\ vresult' = IF any_startswith(vcmd, vlist) THEN "true" ELSE "false"
    /\ UNCHANGED <<vcmd, vlist>>

-----------------------------------------------------------------------------
(* Conversation history *)

\* self.max_tokens = 3500, and the literal 3500 of main.py and scli.py
max_tokens == 3500

\* a message {"role": .., "content": ..}; the content is kept as its text and
\* the number of whitespace-delimited words in it, len(content.split())
Msg(role, text, words) == [role |-> role, text |-> text, words |-> words]

\* the queries a user may type: a one-word one and one of max_tokens words
Queries == {[text |-> <<"q">>, words |-> 1], [text |-> <<"Q">>, words |-> max_tokens]}

\* a reply counts one word per token
ReplyMsg(text) == Msg("assistant", text, Len(text))
UserMsg(q) == Msg("user", q.text, q.words)

RECURSIVE get_total_tokens(_)
get_total_tokens(h) ==
    IF h = <<>> THEN 0 ELSE Head(h).words + get_total_tokens(Tail(h))

\* the budget test `get_total_tokens() > 3500`
over_budget(h) == get_total_tokens(h) > max_tokens

-----------------------------------------------------------------------------
(* What the outside world supplies *)

\* what an engine returns when the call failed (transport, auth, quota):
\* the caught exception as text, f"OpenAI error: {e}" and the like
llm_error_text == <<"LLM error:", Prose>>

\* raw replies the language model may give, and the error text of a failed call
Replies ==
    { <<LB, "resp", "cmd_docker", "needs_no", "pre_empty", "nq_empty", RB>>,
      <<LB, "cmd_rm", RB>>,
      <<LB, "cmd_pad", RB>>,
      <<LB, "cmd_num", RB>>,
      <<LB, "cmd_empty", "needs", "pre_ls", RB>>,
      <<LB, "needs", "pre_rm", RB>>,
      <<LB, "needs", RB>>,
      <<LB, "resp", "cmd_empty", "nq", RB>>,
      <<LB, "cmd_docker", "nq", RB>>,
      <<LB, RB>>,
      <<LB, "resp", "unknown", RB>>,
      <<Prose>>,
      <<Scalar>>,
      <<Prose, LB, "cmd_docker", RB, Prose>>,
      <<LB, "cmd_docker", RB, LB, "cmd_rm", RB>>,
      llm_error_text }

\* lines a human may type at a confirmation prompt
yes == <<"y">>
exit_line == <<"e","x","i","t">>
back_line == <<"b","a","c","k">>
Answers == {yes, <<"Y">>, <<"n">>, <<>>, <<"y","y">>, <<"c">>, <<"y"," ">>, exit_line}

\* lines a human may leave in the edit prompt of scli
Edits == {<<>>, blank, docker_ps, rm_rf, ls_padded}

\* commands a human may type at the top-level prompt
TypedCommands == {ls_cmd}

\* files the selection dialog of scli may return
Files == {"Dockerfile"}

\* what running a command gives: output, no output, or a failure
\* (non-zero exit, or the program could not be launched)
RunResults == {"output", "silent", "failed"}

NoDecision == <<"?">>

\* one shell execution: the command, where it came from, the line typed at the
\* prompt that released it, whether it had been displayed, and how it ended
Execution(cmd, origin, typed, wasShown, result) ==
    [cmd |-> cmd, origin |-> origin, typed |-> typed, shown |-> wasShown,
     result |-> result]

-----------------------------------------------------------------------------
(* Prompts *)

\* what a command printed, as text
out_text == <<"o","u","t">>
\* Python's None where a text was expected
NoOutput == <<"None">>

\* cli2 run_shell_command: the stripped stdout, or None when the command
\* failed or could not be launched
run_shell_command(result) ==
    IF result = "output" THEN out_text
    ELSE IF result = "silent" THEN <<>>
    ELSE NoOutput

\* a model call: the template the prompt was built from, the query it quotes,
\* the output section and the files appended to it, and the history handed to
\* the engine with it (none unless WithHistory says so)
Prompt(template, q, section, files) ==
    [template |-> template, query |-> q, output_section |-> section, files |-> files,
     history |-> <<>>, error_section |-> <<>>]

\* scli get_llm_response(prompt, config, history=h): full_history is the
\* system prompt followed by h
WithHistory(p, h) == [p EXCEPT !.history = h]

NoPrompt == Prompt("none", <<>>, <<>>, {})

OutputHeader == <<"Output:\n">>

\* a follow-up prompt that leaves the gathered output out
format_prompt_without_output(q, output) == Prompt("cli2", q, <<>>, {})

\* cli2 format_prompt(query, output=None):
\*   output_section = f"Output:\n{output}" if output else ""
format_prompt(q, output) ==
    Prompt("cli2", q,
           IF output # NoOutput /\ output # <<>> THEN OutputHeader \o output ELSE <<>>,
           {})

\* src/main.py format_prompt(query)
main_format_prompt(q) == Prompt("main", q, <<>>, {})

\* scli format_command_prompt(query): the loaded files are appended
format_command_prompt(q, files) == Prompt("scli", q, <<>>, files)

\* what a command wrote to its error stream, as text
err_text == <<"e","r","r">>

\* scli execute_command: (stdout.strip(), stderr.strip()); a command that
\* could not be launched gives ("", str(e))
execute_command(result) ==
    IF result = "output" THEN <<out_text, <<>>>>
    ELSE IF result = "silent" THEN <<<<>>, <<>>>>
    ELSE <<<<>>, err_text>>

StdoutHeader == <<"Standard Output:\n">>
StderrHeader == <<"Standard Error:\n">>

\* an analysis prompt that leaves the error stream out
analysis_prompt_without_stderr(cmd, streams) ==
    Prompt("analysis", cmd, StdoutHeader \o streams[1], {})

\* scli process_llm_query, the analysis prompt after yy:
\*   Command: `{command}` / Standard Output:\n{output} / Standard Error:\n{error}
analysis_prompt(cmd, streams) ==
    [Prompt("analysis", cmd, StdoutHeader \o streams[1], {})
        EXCEPT !.error_section = StderrHeader \o streams[2]]

-----------------------------------------------------------------------------
(* The text of the scli command prompt, with the file context *)

\* content[:1000]
file_cap == 1000

Min(a, b) == IF a <= b THEN a ELSE b

\* a file section that carries the whole content
whole_content(content) == content

\* content[:1000]: the first file_cap characters
truncate(content) == SubSeq(content, 1, Min(Len(content), file_cap))

\* the prompt up to and including  User Query: "{query}"  (the instruction
\* text before it is constant and left out)
base_command_prompt(q) == <<"U","s","e","r"," ","Q","u","e","r","y",":"," ","\"">> \o q \o <<"\"">>

\* "\n\n# Project Files Context:\n"
context_header == <<"\n","\n","#"," ","P","r","o","j","e","c","t"," ","F","i","l","e","s"," ","C","o","n","t","e","x","t",":","\n">>

\* f"\n## File: {name}\n"
file_label(name) == <<"\n","#","#"," ","F","i","l","e",":"," ">> \o name \o <<"\n">>

\* for name, content in file_session_data.items():
\*     prompt += f"\n## File: {name}\n{content[:1000]}\n"
RECURSIVE file_sections(_)
file_sections(data) ==
    IF data = <<>> THEN <<>>
    ELSE file_label(Head(data).name) \o truncate(Head(data).content) \o <<"\n">>
         \o file_sections(Tail(data))

\* scli format_command_prompt as text; data is file_session_data in insertion
\* order, a sequence of [name, content]
format_command_prompt_text(q, data) ==
    base_command_prompt(q)
    \o (IF data # <<>> THEN context_header \o file_sections(data) ELSE <<>>)

\* a file content of n characters; the characters past the cap differ from
\* those before it
Content(n) == [i \in 1..n |-> IF i <= 1000 THEN "@" ELSE "z"]

FileNames == {<<"D","f">>, <<"a">>, <<"b",".","p","y">>}
ContentLens == {0, 1, 999, 1000, 1001, 1000 + MaxOver}
FileEntries == [name : FileNames, content : {Content(n) : n \in ContentLens}]

\* the file contexts: up to MaxFiles files with distinct names
RECURSIVE SeqsUpTo(_, _)
SeqsUpTo(S, n) ==
    IF n = 0 THEN {<<>>}
    ELSE SeqsUpTo(S, n - 1) \cup
         {Append(d, e) : d \in {x \in SeqsUpTo(S, n - 1) : Len(x) = n - 1}, e \in S}

FileContexts ==
    {d \in SeqsUpTo(FileEntries, MaxFiles) :
        \A i, j \in 1..Len(d) : d[i].name = d[j].name => i = j}

NotRendered == <<"?">>

PromptIdle ==
    /\ fs_data = <<>>
    /\ fs_query = <<>>
    /\ fs_prompt = NotRendered

RenderPrompt ==
    /\ fs_prompt = NotRendered
    /\ fs_prompt' = format_command_prompt_text(fs_query, fs_data)
    /\ UNCHANGED <<fs_data, fs_query>>

-----------------------------------------------------------------------------
(* The control loop *)

CtlInitVals ==
    /\ pc = "idle"
    /\ history = <<>>
    /\ file_session_data = {}
    /\ chat_session = <<>>
    /\ query = [text |-> <<>>, words |-> 0]
    /\ raw = <<>>
    /\ sug = NoResult
    /\ pending = <<>>
    /\ calls = 0
    /\ blocked = FALSE
    /\ shown = {}
    /\ executed = <<>>
    /\ decision = NoDecision
    /\ edited = NoDecision
    /\ prompt = NoPrompt
    /\ outcome = "ready"

CtlInit ==
    /\ variant \in Variants
    /\ CtlInitVals

\* the bookkeeping of a turn starts afresh with each top-level input
NewTurn(q, over) ==
    /\ query' = q
    /\ sug' = NoResult
    /\ pending' = <<>>
    /\ blocked' = over
    /\ shown' = {}
    /\ executed' = <<>>
    /\ decision' = NoDecision
    /\ edited' = NoDecision

turnVars == <<query, raw, sug, pending, calls, blocked, shown, executed, decision,
              edited, prompt>>
harnessVars == <<ptext, pvariant, presult, vcmd, vlist, vresult,
                 fs_data, fs_query, fs_prompt>>

\* "exit" (and "scli-exit" in scli) at the top-level prompt
Exit ==
    /\ pc = "idle"
    /\ pc' = "exited"
    /\ outcome' = "exiting"
    /\ UNCHANGED <<variant, history, file_session_data, chat_session, turnVars,
                   harnessVars>>

\* a clear that empties the history and keeps the loaded files
clear_history_only ==
    /\ pc = "idle"
    /\ history' = <<>>
    /\ outcome' = "memory_cleared"
    /\ UNCHANGED <<variant, pc, file_session_data, chat_session, turnVars, harnessVars>>

\* clear_memory: "[%clear%]" in main and cli2, "scli-clear" in scli
clear_memory ==
    /\ pc = "idle"
    /\ history' = <<>>
    /\ file_session_data' = IF variant = "scli" THEN {} ELSE file_session_data
    /\ outcome' = "memory_cleared"
    /\ UNCHANGED <<variant, pc, chat_session, turnVars, harnessVars>>

\* src/main.py main, a *** query ***: the query is recorded, then the budget is tested
MainQuery ==
    /\ variant = "main"
    /\ pc = "idle"
    /\ \E q \in Queries :
        /\ Len(history) + 2 <= MaxHistory
        /\ NewTurn(q, over_budget(history))
        /\ calls' = 0
        /\ raw' = <<>>
        /\ prompt' = NoPrompt
        /\ history' = Append(history, UserMsg(q))
        /\ IF over_budget(Append(history, UserMsg(q)))
           THEN pc' = "idle" /\ outcome' = "memory_full"
           ELSE pc' = "await_model" /\ outcome' = "querying"
    /\ UNCHANGED <<variant, file_session_data, chat_session, harnessVars>>

\* a query step that keeps only the newest message in the history
Cli2QueryKeepsNewest ==
    /\ variant = "cli2"
    /\ pc = "idle"
    /\ \E q \in Queries :
        /\ NewTurn(q, over_budget(history))
        /\ calls' = 0
        /\ raw' = <<>>
        /\ prompt' = NoPrompt
        /\ history' = <<UserMsg(q)>>
        /\ pc' = "await_model"
        /\ outcome' = "querying"
    /\ UNCHANGED <<variant, file_session_data, chat_session, harnessVars>>

\* src/2Smartcli/main.py run, a *** query ***: the budget is tested first
Cli2Query ==
    /\ variant = "cli2"
    /\ pc = "idle"
    /\ \E q \in Queries :
        /\ NewTurn(q, over_budget(history))
        /\ calls' = 0
        /\ raw' = <<>>
        /\ prompt' = NoPrompt
        /\ IF over_budget(history)
           THEN /\ pc' = "idle"
                /\ outcome' = "memory_full"
                /\ UNCHANGED history
           ELSE /\ Len(history) + 1 <= MaxHistory
                /\ history' = Append(history, UserMsg(q))
                /\ pc' = "await_model"
                /\ outcome' = "querying"
    /\ UNCHANGED <<variant, file_session_data, chat_session, harnessVars>>

\* src/2Smartcli/main.py run, input without *** markers
Cli2InvalidPrompt ==
    /\ variant = "cli2"
    /\ pc = "idle"
    /\ outcome' = "invalid_prompt_format"
    /\ UNCHANGED <<variant, pc, history, file_session_data, chat_session, turnVars,
                   harnessVars>>

\* src/smartcli/scli.py main, "scli-command <query>": the query is recorded and
\* process_llm_query starts; it asks for files when none are loaded
ScliQuery ==
    /\ variant = "scli"
    /\ pc = "idle"
    /\ \E q \in Queries :
        /\ Len(history) + 2 <= MaxHistory
        /\ NewTurn(q, over_budget(history))
        /\ calls' = 0
        /\ raw' = <<>>
        /\ prompt' = NoPrompt
        /\ history' = Append(history, UserMsg(q))
    /\ pc' = IF file_session_data = {} THEN "files_prompt" ELSE "await_model"
    /\ outcome' = "querying"
    /\ UNCHANGED <<variant, file_session_data, chat_session, harnessVars>>

\* scli: "scli-command" with nothing after it
ScliEmptyQuery ==
    /\ variant = "scli"
    /\ pc = "idle"
    /\ outcome' = "please_provide_a_query"
    /\ UNCHANGED <<variant, pc, history, file_session_data, chat_session, turnVars,
                   harnessVars>>

\* scli process_llm_query, the answer to "Select files now? (y/N)"
ScliFilesAnswer ==
    /\ variant = "scli"
    /\ pc = "files_prompt"
    /\ \E a \in Answers, sel \in SUBSET Files :
        file_session_data' =
            IF strip(lower(a)) = yes THEN file_session_data \cup sel
            ELSE file_session_data
    /\ pc' = "await_model"
    /\ UNCHANGED <<variant, history, chat_session, turnVars, outcome, harnessVars>>

\* scli: "help" or "scli"
ScliHelp ==
    /\ variant = "scli"
    /\ pc = "idle"
    /\ outcome' = "help"
    /\ UNCHANGED <<variant, pc, history, file_session_data, chat_session, turnVars,
                   harnessVars>>

\* scli: "scli-files" replaces the file context by the selection
ScliFiles ==
    /\ variant = "scli"
    /\ pc = "idle"
    /\ \E sel \in SUBSET Files : file_session_data' = sel
    /\ outcome' = "context_updated"
    /\ UNCHANGED <<variant, pc, history, chat_session, turnVars, harnessVars>>

\* main and scli: any other input is run as a shell command at once
\* (subprocess.run(user_input, shell=True) / execute_command(user_input))
DirectCommand ==
    /\ variant \in {"main", "scli"}
    /\ pc = "idle"
    /\ \E c \in TypedCommands, r \in RunResults :
        /\ query' = [text |-> <<>>, words |-> 0]
        /\ raw' = <<>>
        /\ sug' = NoResult
        /\ pending' = <<>>
        /\ calls' = 0
        /\ blocked' = FALSE
        /\ shown' = {}
        /\ decision' = NoDecision
        /\ edited' = NoDecision
        /\ prompt' = NoPrompt
        /\ executed' = <<Execution(c, "typed", NoDecision, FALSE, r)>>
    /\ outcome' = "ran_typed_command"
    /\ UNCHANGED <<variant, pc, history, file_session_data, chat_session, harnessVars>>

\* a test that lets everything through except an explicit "n"
says_yes_unless_no(v, a) == lower(a) # <<"n">>

\* the test that releases a command at a [y/N] prompt:
\* main, cli2: input(..).lower() == "y";  scli: input(..).lower().strip() == 'y'
says_yes(v, a) ==
    IF v = "scli" THEN strip(lower(a)) = yes ELSE lower(a) = yes

\* an executor that is called twice with cmd
RunTwice(cmd, origin, typed, result) ==
    executed' = executed \o <<Execution(cmd, origin, typed, cmd \in shown, result),
                              Execution(cmd, origin, typed, cmd \in shown, result)>>

\* the executor is called with cmd; executed grows by one entry
Run(cmd, origin, typed, result) ==
    executed' = Append(executed, Execution(cmd, origin, typed, cmd \in shown, result))

\* the command texts json.dumps(parsed) puts on the screen
ShownOf(d) ==
    {d[k].s : k \in {k \in {"command", "pre_command"} : d[k].type = "str"}}

\* src/main.py main, lines 110-127: the model call, the reply recorded, the parse
MainModelReply ==
    /\ variant = "main"
    /\ pc = "await_model"
    /\ \E r \in Replies :
        LET p == main_extract(r) IN
        /\ raw' = r
        /\ calls' = calls + 1
        /\ history' = Append(history, ReplyMsg(r))
        /\ sug' = p
        /\ prompt' = main_format_prompt(query.text)
        /\ IF p.kind = "fault"
           THEN pc' = "crashed" /\ outcome' = "traceback"
                /\ UNCHANGED <<pending, shown>>
           ELSE IF p.kind = "ok" /\ p.command # <<>>
           THEN pc' = "confirm" /\ outcome' = "suggested"
                /\ pending' = p.command /\ shown' = shown \cup {p.command}
           ELSE pc' = "idle" /\ outcome' = "could_not_extract_command"
                /\ UNCHANGED <<pending, shown>>
    /\ UNCHANGED <<variant, file_session_data, chat_session, query, blocked,
                   executed, decision, edited, harnessVars>>

\* scli process_llm_query, lines 272-284
ScliModelReply ==
    /\ variant = "scli"
    /\ pc = "await_model"
    /\ \E r \in Replies :
        LET p == scli_extract(r) IN
        /\ raw' = r
        /\ calls' = calls + 1
        /\ history' = Append(history, ReplyMsg(r))
        /\ sug' = p
        /\ prompt' = format_command_prompt(query.text, file_session_data)
        /\ IF p.kind = "ok" /\ p.command # <<>>
           THEN pc' = "confirm" /\ outcome' = "suggested"
                /\ pending' = p.command /\ shown' = shown \cup {p.command}
           ELSE pc' = "idle" /\ outcome' = "no_valid_command"
                /\ UNCHANGED <<pending, shown>>
    /\ UNCHANGED <<variant, file_session_data, chat_session, query, blocked,
                   executed, decision, edited, harnessVars>>

\* validate_command raises AttributeError on anything but a str
\* (None when the key is absent, a number when the model sent one)
ValidateFaults(v) == v.type # "str"

\* cli2 run, lines 142-146: get_llm_response reported an error
Cli2ModelError ==
    /\ variant = "cli2"
    /\ pc \in {"await_model", "follow_model"}
    /\ calls' = calls + 1
    /\ prompt' = IF pc = "await_model" THEN format_prompt(query.text, NoOutput)
                 ELSE format_prompt(query.text,
                                    run_shell_command(executed[Len(executed)].result))
    /\ pc' = "idle"
    /\ outcome' = "llm_error"
    /\ UNCHANGED <<variant, history, file_session_data, chat_session, query, raw, sug,
                   pending, blocked, shown, executed, decision, edited, harnessVars>>

\* cli2 run, lines 142-158 and 181-189: the model call, the parse, the display,
\* then the branch on needs_output and command
Cli2ModelReply ==
    /\ variant = "cli2"
    /\ pc = "await_model"
    /\ \E r \in Replies :
        LET p == parse_llm_json(r)
            d == p.dict
            pre == Get(d, "pre_command", None)
            cmd == Get(d, "command", None)
        IN
        /\ raw' = r
        /\ calls' = calls + 1
        /\ sug' = p
        /\ prompt' = format_prompt(query.text, NoOutput)
        /\ IF p.kind = "none" \/ IsEmptyDict(d)
           THEN pc' = "idle" /\ outcome' = "invalid_llm_response_format"
                /\ UNCHANGED <<pending, shown>>
           ELSE
           /\ shown' = shown \cup ShownOf(d)
           /\ IF Truthy(Get(d, "needs_output", None))
              THEN IF ValidateFaults(pre)
                   THEN pc' = "crashed" /\ outcome' = "traceback"
                        /\ UNCHANGED pending
                   ELSE IF ~validate_command(pre.s)
                   THEN pc' = "idle" /\ outcome' = "invalid_pre_command"
                        /\ UNCHANGED pending
                   ELSE pc' = "pre_confirm" /\ outcome' = "suggested"
                        /\ pending' = pre.s
              ELSE IF Truthy(cmd)
              THEN IF ValidateFaults(cmd)
                   THEN pc' = "crashed" /\ outcome' = "traceback"
                        /\ UNCHANGED pending
                   ELSE IF ~validate_command(cmd.s)
                   THEN pc' = "idle" /\ outcome' = "invalid_command"
                        /\ UNCHANGED pending
                   ELSE pc' = "confirm" /\ outcome' = "suggested"
                        /\ pending' = cmd.s
              ELSE pc' = "idle" /\ outcome' = "no_command_to_run"
                   /\ UNCHANGED pending
    /\ UNCHANGED <<variant, history, file_session_data, chat_session, query, blocked,
                   executed, decision, edited, harnessVars>>

\* cli2 run, lines 159-164: the answer to "Run `pre_cmd` to gather info? [y/N]"
Cli2PreConfirm ==
    /\ variant = "cli2"
    /\ pc = "pre_confirm"
    /\ \E a \in Answers, r \in RunResults :
        /\ decision' = a
        /\ IF says_yes(variant, a)
           THEN /\ Run(pending, "pre_command", a, r)
                /\ IF r = "failed"
                   THEN pc' = "idle" /\ outcome' = "failed_to_run_pre_command"
                   ELSE pc' = "follow_model" /\ outcome' = "gathered"
           ELSE pc' = "idle" /\ UNCHANGED <<executed, outcome>>
    /\ UNCHANGED <<variant, history, file_session_data, chat_session, query, raw, sug,
                   pending, calls, blocked, shown, edited, prompt, harnessVars>>

\* a follow-up reply handled like a first reply: needs_output opens a new round
Cli2FollowReplyOpensRound ==
    /\ variant = "cli2"
    /\ pc = "follow_model"
    /\ \E r \in Replies :
        LET p == parse_llm_json(r)
            d == p.dict
            pre == Get(d, "pre_command", None)
        IN
        /\ raw' = r
        /\ calls' = calls + 1
        /\ sug' = p
        /\ prompt' = format_prompt(query.text,
                                   run_shell_command(executed[Len(executed)].result))
        /\ IF p.kind = "ok" /\ Truthy(Get(d, "needs_output", None))
              /\ pre.type = "str" /\ validate_command(pre.s)
           THEN pc' = "pre_confirm" /\ outcome' = "suggested"
                /\ pending' = pre.s /\ shown' = shown \cup ShownOf(d)
           ELSE pc' = "idle" /\ outcome' = "no_valid_command_in_follow_up"
                /\ UNCHANGED <<pending, shown>>
    /\ UNCHANGED <<variant, history, file_session_data, chat_session, query, blocked,
                   executed, decision, edited, harnessVars>>

\* cli2 run, lines 165-180: the follow-up model call and its parse
Cli2FollowReply ==
    /\ variant = "cli2"
    /\ pc = "follow_model"
    /\ \E r \in Replies :
        LET p == parse_llm_json(r)
            d == p.dict
            cmd == Get(d, "command", None)
        IN
        /\ raw' = r
        /\ calls' = calls + 1
        /\ sug' = p
        /\ prompt' = format_prompt(query.text, run_shell_command(executed[Len(executed)].result))
        /\ IF p.kind = "ok" /\ ~IsEmptyDict(d) /\ Truthy(cmd)
           THEN /\ shown' = shown \cup ShownOf(d)
                /\ IF ValidateFaults(cmd)
                   THEN pc' = "crashed" /\ outcome' = "traceback"
                        /\ UNCHANGED pending
                   ELSE IF ~validate_command(cmd.s)
                   THEN pc' = "idle" /\ outcome' = "invalid_command"
                        /\ UNCHANGED pending
                   ELSE pc' = "follow_confirm" /\ outcome' = "suggested"
                        /\ pending' = cmd.s
           ELSE pc' = "idle" /\ outcome' = "no_valid_command_in_follow_up"
                /\ UNCHANGED <<pending, shown>>
    /\ UNCHANGED <<variant, history, file_session_data, chat_session, query, blocked,
                   executed, decision, edited, harnessVars>>

\* main lines 121-125, cli2 lines 174-176 and 183-185: the answer to "Run ...? [y/N]"
Confirm ==
    /\ variant \in {"main", "cli2"}
    /\ pc \in {"confirm", "follow_confirm"}
    /\ \E a \in Answers, r \in RunResults :
        /\ decision' = a
        /\ IF says_yes(variant, a)
           THEN Run(pending, "command", a, r) /\ outcome' = "ran"
           ELSE UNCHANGED executed
                /\ outcome' = IF variant = "main" THEN "skipped" ELSE outcome
    /\ pc' = "idle"
    /\ UNCHANGED <<variant, history, file_session_data, chat_session, query, raw, sug,
                   pending, calls, blocked, shown, edited, prompt, harnessVars>>

\* scli process_llm_query, lines 294-318: y, yy, c, or anything else
ScliConfirm ==
    /\ variant = "scli"
    /\ pc = "confirm"
    /\ \E a \in Answers, r \in RunResults :
        /\ decision' = a
        /\ IF says_yes(variant, a)
           THEN Run(pending, "command", a, r) /\ pc' = "idle" /\ outcome' = "ran"
           ELSE IF strip(lower(a)) = <<"y","y">>
           THEN Run(pending, "command", a, r) /\ pc' = "analyze_model"
                /\ outcome' = "sending_for_analysis"
           ELSE IF strip(lower(a)) = <<"c">>
           THEN UNCHANGED executed /\ pc' = "edit" /\ outcome' = "editing"
           ELSE UNCHANGED executed /\ pc' = "idle" /\ outcome' = "skipped"
    /\ UNCHANGED <<variant, history, file_session_data, chat_session, query, raw, sug,
                   pending, calls, blocked, shown, edited, prompt, harnessVars>>

\* an edit prompt that falls back to the suggestion when the line is empty
ScliEditFallsBack ==
    /\ variant = "scli"
    /\ pc = "edit"
    /\ \E e \in Edits, r \in RunResults :
        /\ edited' = e
        /\ Run(IF strip(e) # <<>> THEN strip(e) ELSE pending, "edited", decision, r)
        /\ outcome' = "ran"
    /\ pc' = "idle"
    /\ UNCHANGED <<variant, history, file_session_data, chat_session, query, raw, sug,
                   pending, calls, blocked, shown, decision, prompt, harnessVars>>

\* scli lines 312-316: the edited line; an empty one cancels
ScliEdit ==
    /\ variant = "scli"
    /\ pc = "edit"
    /\ \E e \in Edits, r \in RunResults :
        /\ edited' = e
        /\ IF strip(e) # <<>>
           THEN Run(strip(e), "edited", decision, r) /\ outcome' = "ran"
           ELSE UNCHANGED executed /\ outcome' = "edit_cancelled"
    /\ pc' = "idle"
    /\ UNCHANGED <<variant, history, file_session_data, chat_session, query, raw, sug,
                   pending, calls, blocked, shown, decision, prompt, harnessVars>>

\* scli lines 308-310: the analysis call after yy; its reply is only printed
ScliAnalysis ==
    /\ variant = "scli"
    /\ pc = "analyze_model"
    /\ calls' = calls + 1
    /\ prompt' = analysis_prompt(pending, execute_command(executed[Len(executed)].result))
    /\ pc' = "idle"
    /\ outcome' = "analysis"
    /\ UNCHANGED <<variant, history, file_session_data, chat_session, query, raw, sug,
                   pending, blocked, shown, executed, decision, edited, harnessVars>>

\* replies the model may give in chat, and the error text of a failed call
ChatReplies == {<<Prose>>, <<Prose, Prose>>, llm_error_text}

\* the system message get_llm_response puts in front of the history
SystemMsg == Msg("system", <<>>, 0)

\* the Python lists of a chat call: chat_history held by enter_chat_mode,
\* full_history built by get_llm_response, and the list the engine makes
\* for itself when it was handed an empty one
Lists == {"chat_history", "full_history", "messages"}
ChatHeap(h) == [l \in Lists |-> IF l = "chat_history" THEN h ELSE <<>>]

\* engine get_response(prompt, config, history):
\*   messages = history if history else []; messages.append(user prompt)
\* the append lands in the list object that was passed, unless it is empty
get_response(heap, list, q) ==
    LET messages == IF heap[list] # <<>> THEN list ELSE "messages"
    IN  [heap EXCEPT ![messages] = Append(heap[messages], UserMsg(q))]

\* a get_llm_response that hands chat_history itself to the engine
get_llm_response_shared(heap, q) == get_response(heap, "chat_history", q)

\* scli get_llm_response(prompt, config, history=chat_history):
\*   full_history = [system]; if history: full_history.extend(history)
\*   engine_module.get_response(prompt=..., config=..., history=full_history)
get_llm_response(heap, q) ==
    get_response([heap EXCEPT !["full_history"] = <<SystemMsg>> \o heap["chat_history"]],
                 "full_history", q)

\* scli: "scli-chat" enters enter_chat_mode with chat_history = []; the
\* bookkeeping of the command turn before it is dropped
ScliEnterChat ==
    /\ variant = "scli"
    /\ pc = "idle"
    /\ NewTurn([text |-> <<>>, words |-> 0], FALSE)
    /\ calls' = 0
    /\ raw' = <<>>
    /\ prompt' = NoPrompt
    /\ pc' = "chat"
    /\ chat_session' = <<>>
    /\ outcome' = "entering_chat"
    /\ UNCHANGED <<variant, history, file_session_data, harnessVars>>

\* scli enter_chat_mode, lines 236-245: a warning when the chat history is
\* long, then the model call, then both messages recorded
ScliChatTurn ==
    /\ variant = "scli"
    /\ pc = "chat"
    /\ Len(chat_session) + 2 <= MaxHistory
    /\ \E q \in Queries, r \in ChatReplies :
        /\ NewTurn(q, over_budget(chat_session))
        /\ calls' = 1
        /\ raw' = r
        /\ prompt' = WithHistory(Prompt("chat", q.text, <<>>, {}), chat_session)
        /\ chat_session' = get_llm_response(ChatHeap(chat_session), q)["chat_history"]
                                \o <<UserMsg(q), ReplyMsg(r)>>
    /\ outcome' = IF over_budget(chat_session) THEN "history_is_long" ELSE "chat_reply"
    /\ UNCHANGED <<variant, pc, history, file_session_data, harnessVars>>

\* scli enter_chat_mode, lines 232-234: "exit" or "back" leaves chat mode
ScliLeaveChat ==
    /\ variant = "scli"
    /\ pc = "chat"
    /\ \E l \in {exit_line, back_line} : decision' = l
    /\ pc' = "idle"
    /\ chat_session' = <<>>
    /\ prompt' = NoPrompt
    /\ outcome' = "exiting_chat"
    /\ UNCHANGED <<variant, history, file_session_data, query, raw, sug, pending, calls,
                   blocked, shown, executed, edited, harnessVars>>

\* where the control loop blocks: on input, or on the model
SuspensionPoints ==
    {"idle", "await_model", "files_prompt", "confirm", "pre_confirm", "follow_model",
     "follow_confirm", "edit", "analyze_model", "chat"}

\* how KeyboardInterrupt ends the program: cli2 run (192-194) and scli main
\* (364-366) catch it around the loop, print a farewell and return; src/main.py
\* has no handler, the exception leaves main() and Python prints a traceback
KeyboardInterrupt ==
    IF variant = "main"
    THEN pc' = "interrupted" /\ outcome' = "keyboard_interrupt_traceback"
    ELSE pc' = "exited" /\ outcome' = "exiting_on_interrupt"

\* Ctrl-C while the loop waits for input or for the model; no handler between
\* the wait and the loop catches it (they catch Exception, which
\* KeyboardInterrupt is not)
Interrupt ==
    /\ pc \in SuspensionPoints
    /\ KeyboardInterrupt
    /\ UNCHANGED <<variant, history, file_session_data, chat_session, turnVars,
                   harnessVars>>

\* Ctrl-C while a confirmed command runs: the executor was called, the
\* exception passes through subprocess.run and the except Exception clauses
InterruptDuringCommand ==
    /\ pc \in {"confirm", "pre_confirm", "follow_confirm"}
    /\ \E a \in Answers :
        /\ \/ says_yes(variant, a)
           \/ (variant = "scli" /\ strip(lower(a)) = <<"y","y">>)
        /\ decision' = a
        /\ Run(pending, IF pc = "pre_confirm" THEN "pre_command" ELSE "command", a,
               "interrupted")
    /\ KeyboardInterrupt
    /\ UNCHANGED <<variant, history, file_session_data, chat_session, query, raw, sug,
                   pending, calls, blocked, shown, edited, prompt, harnessVars>>

Init ==
    /\ CtlInit
    /\ ParseIdle
    /\ ValidIdle
    /\ PromptIdle

Next ==
    \/ Exit
    \/ clear_memory
    \/ MainQuery
    \/ Cli2Query
    \/ Cli2InvalidPrompt
    \/ ScliQuery
    \/ ScliEmptyQuery
    \/ ScliFilesAnswer
    \/ ScliHelp
    \/ ScliFiles
    \/ DirectCommand
    \/ MainModelReply
    \/ ScliModelReply
    \/ Cli2ModelError
    \/ Cli2ModelReply
    \/ Cli2PreConfirm
    \/ Cli2FollowReply
    \/ Confirm
    \/ ScliConfirm
    \/ ScliEdit
    \/ ScliAnalysis
    \/ ScliEnterChat
    \/ ScliChatTurn
    \/ ScliLeaveChat
    \/ Interrupt
    \/ InterruptDuringCommand

Spec == Init /\ [][Next]_vars

\* the parsers alone, on every reply of at most MaxLen tokens
InitParse ==
    /\ variant = "none"
    /\ CtlInitVals
    /\ ValidIdle
    /\ PromptIdle
    /\ ptext \in Texts
    /\ ParseInitVals

NextParse ==
    \/ RunMainParser /\ UNCHANGED <<ctlVars, validVars, promptVars>>
    \/ RunCli2Parser /\ UNCHANGED <<ctlVars, validVars, promptVars>>
    \/ RunScliParser /\ UNCHANGED <<ctlVars, validVars, promptVars>>

SpecParse == InitParse /\ [][NextParse]_vars

\* the validator alone, on every command and every list of names
InitValidator ==
    /\ variant = "none"
    /\ CtlInitVals
    /\ ParseIdle
    /\ PromptIdle
    /\ vcmd \in VCommands
    /\ vlist \in SUBSET allowed_commands
    /\ vresult = "none"

NextValidator == RunValidator /\ UNCHANGED <<ctlVars, parseVars, promptVars>>

SpecValidator == InitValidator /\ [][NextValidator]_vars

\* format_command_prompt alone, on every file context and query
InitPrompt ==
    /\ variant = "none"
    /\ CtlInitVals
    /\ ParseIdle
    /\ ValidIdle
    /\ fs_data \in FileContexts
    /\ fs_query \in {q.text : q \in Queries}
    /\ fs_prompt = NotRendered

NextPrompt == RenderPrompt /\ UNCHANGED <<ctlVars, parseVars, validVars>>

SpecPrompt == InitPrompt /\ [][NextPrompt]_vars

-----------------------------------------------------------------------------
(* Properties *)

\* what the human typed is one of the affirmative answers: y (Run),
\* yy (RunAndAnalyze) or c (EditThenRun)
Affirmative(a) == strip(lower(a)) \in {<<"y">>, <<"y","y">>, <<"c">>}

PromptPcs == {"confirm", "pre_confirm", "follow_confirm"}

\* what the controller reports when Ctrl-C ended the program
InterruptOutcomes == {"exiting_on_interrupt", "keyboard_interrupt_traceback"}

\* C1: a command or pre_command proposed by the model reaches the shell only
\* after it was displayed and the human then typed an affirmative answer in
\* the same turn (an edited command only with non-empty text); any other line
\* typed at a confirmation prompt ends the turn in Idle with nothing executed.
C1_ExecutionNeedsConsent ==
    /\ [](\A i \in 1..Len(executed) :
            /\ executed[i].origin \in {"command", "pre_command"} =>
                  (Affirmative(executed[i].typed) /\ executed[i].shown)
            /\ executed[i].origin = "edited" =>
                  (strip(lower(executed[i].typed)) = <<"c">> /\ executed[i].cmd # <<>>))
    /\ [][(pc \in PromptPcs /\ pc' # pc /\ ~Affirmative(decision')
             /\ outcome' \notin InterruptOutcomes) =>
            (pc' = "idle" /\ executed' = executed)]_vars
    /\ [][(pc = "edit" /\ pc' # pc /\ Len(executed') = Len(executed)
             /\ outcome' \notin InterruptOutcomes) =>
            pc' = "idle"]_vars

\* C1 witness: in cli2 the pre_command and then the final command were both
\* released by a typed y and the turn is over.
C1_Witness ==
    /\ variant = "cli2"
    /\ pc = "idle"
    /\ Len(executed) = 2
    /\ executed[1].origin = "pre_command"
    /\ executed[2].origin = "command"

\* C2: a query submitted while the history's word count exceeds the budget
\* causes no model call (command queries and chat turns alike).
C2_NoModelCallOverBudget == blocked => calls = 0

\* the validator's verdict on cmd, written out from the allow-list
Rejected(cmd) == ~any_startswith(cmd, allowed_commands)

\* C3: in cli2 a command or pre_command the validator rejects is never
\* executed and never reaches a confirmation prompt; the rejection is reported
\* in Idle with the suggestion on the screen.
C3_RejectedNeverExecuted ==
    variant = "cli2" =>
        /\ \A i \in 1..Len(executed) : ~Rejected(executed[i].cmd)
        /\ pc \in PromptPcs => ~Rejected(pending)
        /\ outcome = "invalid_command" =>
              (pc = "idle" /\ Rejected(sug.dict["command"].s)
               /\ sug.dict["command"].s \in shown)
        /\ outcome = "invalid_pre_command" =>
              (pc = "idle" /\ executed = <<>> /\ Rejected(sug.dict["pre_command"].s)
               /\ sug.dict["pre_command"].s \in shown)

\* C3 witness: the follow-up reply of cli2 proposed rm -rf / after the
\* pre_command ran; it was displayed and rejected.
C3_Witness ==
    /\ variant = "cli2"
    /\ pc = "idle"
    /\ outcome = "invalid_command"
    /\ calls = 2
    /\ Len(executed) = 1
    /\ rm_rf \in shown

HasQuestion(p) == p.kind = "ok" /\ Truthy(Get(p.dict, "next_question", None))

\* C5: the command of a suggestion that carries a non-empty next_question is
\* never executed (stated for cli2, the program whose prompt asks the model for
\* next_question).
C5_QuestionNeverExecuted ==
    (variant = "cli2" /\ HasQuestion(sug)) =>
        \A i \in 1..Len(executed) : executed[i].origin \notin {"command", "edited"}

\* text holds exactly one well-formed JSON object, at positions i..j
OnlyObjectAt(text, i, j) ==
    /\ IsObject(SubSeq(text, i, j))
    /\ \A k, l \in 1..Len(text) :
          (k <= l /\ IsObject(SubSeq(text, k, l))) => (k = i /\ l = j)

\* C6: a reply that holds exactly one well-formed JSON object, with anything
\* around it, parses to that object's fields, unchanged.
C6_ParseReturnsTheObject ==
    presult.kind # "unparsed" =>
        \A i, j \in 1..Len(ptext) :
            (i <= j /\ OnlyObjectAt(ptext, i, j)) =>
                LET d == DictOf(SubSeq(ptext, i, j)) IN
                /\ presult.kind = "ok"
                /\ presult.dict = d
                /\ presult.command = Get(d, "command", Str(<<>>)).s
                /\ presult.response = Get(d, "response", Str(<<>>)).s

\* the first { of text is closed again: depth returns to 0 at position j
ClosesAt(text, j) ==
    /\ HasMatch(text)
    /\ j \in FirstLB(text)..Len(text)
    /\ Cardinality({k \in FirstLB(text)..j : text[k] = LB}) =
         Cardinality({k \in FirstLB(text)..j : text[k] = RB})
    /\ \A m \in FirstLB(text)..(j - 1) :
          Cardinality({k \in FirstLB(text)..m : text[k] = LB}) >
          Cardinality({k \in FirstLB(text)..m : text[k] = RB})

\* C7: parse_llm_json decodes the first balanced brace span of the reply,
\* not the span from the first { to the last }.
C7_FirstBalancedObject ==
    (pvariant = "cli2") =>
        \A j \in 1..Len(ptext) :
            ClosesAt(ptext, j) =>
                LET span == SubSeq(ptext, FirstLB(ptext), j) IN
                IF IsObject(span)
                THEN presult.kind = "ok" /\ presult.dict = DictOf(span)
                ELSE presult.kind = "none"

\* no part of text is a JSON object: braces absent or unbalanced, invalid
\* JSON between them, or a top-level value that is not an object
NoObject(text) ==
    \A i, j \in 1..Len(text) : i <= j => ~IsObject(SubSeq(text, i, j))

\* C8: on a reply that holds no JSON object every parser returns its failure
\* value; no fault leaves the parser.
C8_FailureIsReturned ==
    (presult.kind # "unparsed" /\ NoObject(ptext)) => presult.kind = "none"

\* the reply is one JSON object whose schema fields, where present, have
\* the types of the schema
WellTypedObject(text) ==
    /\ IsObject(text)
    /\ \A k \in {"response", "command", "pre_command", "next_question"} :
          DictOf(text)[k].type \in {"absent", "str"}
    /\ DictOf(text)["needs_output"].type \in {"absent", "bool"}

\* C9: a reply that is a JSON object with some schema fields absent never
\* makes the controller fault.
C9_AbsentFieldsTolerated ==
    (calls > 0 /\ WellTypedObject(raw)) => pc # "crashed"

\* what each program prints for a reply it could not parse
ParseFailureOutcomes ==
    {"could_not_extract_command", "invalid_llm_response_format", "no_valid_command"}

\* the reply is a JSON object with neither a command nor a question
DeclinedReply(text) ==
    /\ WellTypedObject(text)
    /\ ~Truthy(Get(DictOf(text), "command", None))
    /\ ~Truthy(Get(DictOf(text), "next_question", None))
    /\ ~Truthy(Get(DictOf(text), "needs_output", None))

\* C10: in scli and cli2 a decoded reply with neither command nor question
\* is not reported the way an unparsable reply is.
C10_DeclinedIsNotParseFailure ==
    (variant \in {"scli", "cli2"} /\ calls > 0 /\ DeclinedReply(raw)) =>
        outcome \notin ParseFailureOutcomes

\* C11: after a clear the token estimate of the conversation context is 0 and
\* the file context is empty, both in the one step of the clear, and no
\* history that feeds a budget test or a model call is left, the chat-mode
\* history included.
C11_ClearResetsEverything ==
    /\ [](outcome = "memory_cleared" =>
            /\ get_total_tokens(history) = 0
            /\ history = <<>>
            /\ file_session_data = {}
            /\ get_total_tokens(chat_session) = 0
            /\ chat_session = <<>>)
    /\ [][(pc = "idle" /\ outcome' = "memory_cleared") =>
            (history' = <<>> /\ file_session_data' = {} /\ chat_session' = <<>>)]_vars

\* a clear in scli after a turn whose model call went out with files loaded
C11_Witness ==
    /\ variant = "scli"
    /\ outcome = "memory_cleared"
    /\ calls > 0
    /\ prompt.files # {}
    /\ history = <<>>
    /\ file_session_data = {}

\* part occurs in text as a run of consecutive characters
Contains(text, part) ==
    \E i \in 0..Len(text) :
        /\ i + Len(part) <= Len(text)
        /\ \A j \in 1..Len(part) : text[i + j] = part[j]

\* the reply the parser kept asks for output to be gathered first
WantsOutput(p) == p.kind = "ok" /\ Truthy(Get(p.dict, "needs_output", None))

\* C12: in cli2, when the reply sets needs_output with a pre_command, the
\* human is asked first; the pre_command runs only on a typed y; the second
\* model call comes after that run, with a prompt that quotes the query and
\* contains what the pre_command printed; a final command is offered only
\* after the second reply was parsed; a refusal runs nothing and ends in Idle.
C12_PreCommandOrder ==
    /\ [](variant = "cli2" =>
            /\ (pc \in {"follow_model", "follow_confirm"} \/ calls = 2) =>
                 /\ Len(executed) >= 1
                 /\ executed[1].origin = "pre_command"
                 /\ lower(executed[1].typed) = yes
                 /\ executed[1].shown
                 /\ executed[1].result # "failed"
            /\ calls = 2 =>
                 /\ prompt.query = query.text
                 /\ executed[1].result = "output" =>
                        Contains(prompt.output_section, out_text)
            /\ pc = "pre_confirm" => (calls = 1 /\ executed = <<>>)
            /\ pc = "follow_confirm" => calls = 2
            /\ pc = "confirm" => ~WantsOutput(sug)
            /\ \A i \in 1..Len(executed) :
                 (executed[i].origin = "command" /\ i > 1) => calls = 2)
    /\ [][(variant = "cli2" /\ pc = "pre_confirm" /\ pc' # pc
             /\ lower(decision') # yes /\ outcome' \notin InterruptOutcomes) =>
            (pc' = "idle" /\ executed' = <<>> /\ calls' = calls)]_vars

\* the final command is offered after a pre_command that printed something
C12_Witness ==
    /\ variant = "cli2"
    /\ pc = "follow_confirm"
    /\ calls = 2
    /\ executed[1].result = "output"
    /\ prompt.output_section = OutputHeader \o out_text

\* the executions of the turn that came from the given origin
ExecutionsFrom(origin) == {i \in 1..Len(executed) : executed[i].origin = origin}

\* C13: a query gets at most one follow-up round: at most two model calls and
\* at most one pre_command execution happen in its turn, also when the second
\* reply sets needs_output with a pre_command again; after the second reply no
\* further permission prompt or model call is pending.
C13_OneFollowUpRound ==
    /\ calls <= 2
    /\ Cardinality(ExecutionsFrom("pre_command")) <= 1
    /\ calls = 2 => pc \notin {"await_model", "pre_confirm", "follow_model",
                               "analyze_model"}

\* the second reply of a cli2 turn asks for output again, and the turn is over
C13_Witness ==
    /\ variant = "cli2"
    /\ pc = "idle"
    /\ calls = 2
    /\ WantsOutput(sug)
    /\ Truthy(Get(sug.dict, "pre_command", None))
    /\ Cardinality(ExecutionsFrom("pre_command")) = 1

\* C14: when the human types y at the confirmation of a suggestion, that step
\* calls the executor exactly once, with exactly the command the parser
\* yielded for the suggestion; a turn holds no second run of a suggestion.
C14_RunExecutesTheSuggestion ==
    /\ [](/\ \A i \in ExecutionsFrom("command") : executed[i].cmd = sug.command
          /\ Cardinality(ExecutionsFrom("command")) <= 1)
    /\ [][(pc \in {"confirm", "follow_confirm"} /\ pc' # pc /\ lower(decision') = yes
             /\ outcome' \notin InterruptOutcomes) =>
            /\ Len(executed') = Len(executed) + 1
            /\ SubSeq(executed', 1, Len(executed)) = executed
            /\ executed'[Len(executed')].origin = "command"
            /\ executed'[Len(executed')].cmd = sug.command
            /\ sug' = sug]_vars

\* scli ran the suggestion docker ps once after a y
C14_Witness ==
    /\ variant = "scli"
    /\ pc = "idle"
    /\ lower(decision) = yes
    /\ sug.command = docker_ps
    /\ Len(executed) = 1
    /\ executed[1].origin = "command"
    /\ executed[1].cmd = docker_ps

\* C15: in scli, an edit that is empty after trimming is a Skip: nothing is
\* executed, no error state is entered and the controller is back in Idle; a
\* non-empty edit is executed as edited (trimmed), whatever the suggestion was.
C15_EmptyEditSkips ==
    /\ []((variant = "scli" /\ edited # NoDecision) =>
            /\ pc \notin {"edit", "crashed"}
            /\ IF strip(edited) = <<>>
               THEN executed = <<>>
               ELSE /\ Len(executed) = 1
                    /\ executed[1].origin = "edited"
                    /\ executed[1].cmd = strip(edited))
    /\ [][(pc = "edit" /\ pc' # pc /\ outcome' \notin InterruptOutcomes) =>
            /\ pc' = "idle"
            /\ edited' # NoDecision
            /\ strip(edited') = <<>> => outcome' = "edit_cancelled"]_vars

\* the suggestion was docker ps, the human edited it into another command,
\* and that one ran
C15_Witness ==
    /\ variant = "scli"
    /\ pc = "idle"
    /\ sug.command = docker_ps
    /\ edited = rm_rf
    /\ Len(executed) = 1
    /\ executed[1].cmd = rm_rf

\* C16: after a turn in which a suggestion was run (y, yy or an edit), the
\* conversation context holds the execution result once the controller is
\* back in Idle; for a command that printed text, some entry contains it.
C16_ResultRecorded ==
    (/\ pc = "idle"
     /\ outcome \in {"ran", "analysis"}
     /\ executed # <<>>
     /\ executed[Len(executed)].origin \in {"command", "edited"}
     /\ executed[Len(executed)].result = "output") =>
        \E i \in 1..Len(history) : Contains(history[i].text, out_text)

\* C17: when the reply of the model cannot be decoded (the parser returned its
\* failure value), the turn ends in Idle with nothing executed and no
\* confirmation prompt answered, and the conversation context holds the raw
\* reply as an entry.
C17_ParseFailureRecorded ==
    (/\ calls = 1
     /\ sug.kind = "none"
     /\ pc = "idle"
     /\ outcome \in ParseFailureOutcomes) =>
        /\ executed = <<>>
        /\ decision = NoDecision
        /\ \E i \in 1..Len(history) : history[i] = ReplyMsg(raw)

\* C18: when the model call of a turn failed, the conversation context
\* afterwards ends with the user's query of that turn, holds no assistant
\* entry for the failed response, and nothing was executed in the turn.
C18_FailedCallNotRecorded ==
    (/\ pc = "idle"
     /\ calls = 1
     /\ sug.kind \in {"none", "unparsed"}
     /\ \/ outcome = "llm_error"
        \/ (raw = llm_error_text /\ outcome \in ParseFailureOutcomes)) =>
        /\ executed = <<>>
        /\ history # <<>>
        /\ history[Len(history)] = UserMsg(query)
        /\ \A i \in 1..Len(history) : history[i] # ReplyMsg(llm_error_text)

\* C19: every error inside a turn stays inside the turn: the process is never
\* ended by one (an uncaught exception); it ends only through an explicit
\* exit or an interrupt, so the control loop is always at a prompt, inside a
\* turn, exited or interrupted.
C19_ErrorsAreLocal ==
    pc \in {"idle", "await_model", "files_prompt", "confirm", "pre_confirm",
            "follow_model", "follow_confirm", "edit", "analyze_model", "chat",
            "exited", "interrupted"}

\* C20: an explicit quit input ends the process wherever it is typed: at the
\* top-level prompt, at a confirmation or pre_command permission prompt, and
\* in chat mode.
C20_QuitExitsEverywhere ==
    (decision = exit_line \/ outcome = "exiting") => pc = "exited"

\* C21: an interrupt at any suspension point ends the turn and the process
\* cleanly (through the program's own exit path, not through an uncaught
\* exception); afterwards nothing more is called or executed and the history
\* is as it was.
C21_InterruptExitsCleanly ==
    outcome \in InterruptOutcomes => pc = "exited"

\* C22: an input at the top-level prompt that is no meta-command is a query:
\* it goes through the model and the confirmation prompt, and no command runs
\* straight from the top-level prompt.
C22_NoDirectExecution ==
    \A i \in 1..Len(executed) : executed[i].origin # "typed"

\* how often character c occurs in text
Count(text, c) == Cardinality({i \in 1..Len(text) : text[i] = c})

\* per file: the label, the content up to 1000 characters, the closing newline
RECURSIVE SectionBudget(_)
SectionBudget(data) ==
    IF data = <<>> THEN 0
    ELSE Len(file_label(Head(data).name)) + Min(Len(Head(data).content), 1000) + 1
         + SectionBudget(Tail(data))

RECURSIVE KeptCharacters(_)
KeptCharacters(data) ==
    IF data = <<>> THEN 0
    ELSE Min(Len(Head(data).content), 1000) + KeptCharacters(Tail(data))

\* C23 as stated: the prompt is no longer than the base prompt plus, per
\* file, the label and min(len(content), 1000).
C23_PromptLengthBound ==
    fs_prompt # NotRendered =>
        Len(fs_prompt) <= Len(base_command_prompt(fs_query)) + SectionBudget(fs_data)

\* C23, amended: the prompt holds, under one context header, a labelled
\* section per file with the first 1000 characters of its content and nothing
\* past them; its length is the base prompt, the header once, and per file
\* the label and min(len(content), 1000); with no files it is the base prompt.
C23_PromptLengthBoundWithHeader ==
    fs_prompt # NotRendered =>
        /\ fs_data = <<>> => fs_prompt = base_command_prompt(fs_query)
        /\ fs_data # <<>> =>
              Len(fs_prompt) = Len(base_command_prompt(fs_query)) + Len(context_header)
                               + SectionBudget(fs_data)
        /\ Count(fs_prompt, "z") = 0
        /\ Count(fs_prompt, "@") = KeptCharacters(fs_data)
        /\ \A i \in 1..Len(fs_data) : Contains(fs_prompt, file_label(fs_data[i].name))

\* a prompt was rendered for two files, one of them longer than the cap
C23_Witness ==
    /\ fs_prompt # NotRendered
    /\ Len(fs_data) = 2
    /\ Len(fs_data[1].content) > 1000
    /\ Len(fs_data[2].content) = 1

\* h is an initial part of g
IsPrefix(h, g) == Len(h) <= Len(g) /\ SubSeq(g, 1, Len(h)) = h

\* C24: the conversation history changes only by appends at its end or by the
\* clear action: every step keeps the recorded messages, in order, as an
\* initial part of the new history, except a clear step, which empties it;
\* the length decreases only at a clear step.
C24_HistoryAppendOnly ==
    [][\/ IsPrefix(history, history')
       \/ (pc = "idle" /\ outcome' = "memory_cleared" /\ history' = <<>>)]_vars

\* two turns were recorded one after the other, the second one ran a command
C24_Witness ==
    /\ variant = "scli"
    /\ pc = "idle"
    /\ Len(history) = 4
    /\ history[1].role = "user"
    /\ history[2].role = "assistant"
    /\ history[3].role = "user"
    /\ history[4] = ReplyMsg(raw)
    /\ executed # <<>>

\* C25: a model call for a command query is given the history recorded so
\* far: once earlier messages are on record, the oldest of them is among the
\* messages handed to the engine with the prompt.
C25_HistoryReachesModel ==
    (/\ prompt.template \in {"main", "cli2", "scli"}
     /\ Len(history) >= 3) =>
        \E i \in 1..Len(prompt.history) : prompt.history[i] = history[1]

yy == <<"y","y">>

\* C26: answering yy runs the suggested command once and moves on to the
\* analysis call; that call is one model call whose prompt carries the
\* command, what it printed and what it wrote to the error stream, it runs
\* nothing further, and the loop is back at its prompt.
C26_RunAndAnalyze ==
    [][/\ (/\ variant = "scli" /\ pc = "confirm"
            /\ strip(lower(decision')) = yy
            /\ outcome' \notin InterruptOutcomes) =>
                /\ Len(executed') = Len(executed) + 1
                /\ SubSeq(executed', 1, Len(executed)) = executed
                /\ executed'[Len(executed')].cmd = pending
                /\ calls' = calls
                /\ pc' = "analyze_model"
       /\ (pc = "analyze_model" /\ outcome' \notin InterruptOutcomes) =>
                /\ calls' = calls + 1
                /\ prompt'.template = "analysis"
                /\ prompt'.query = executed[Len(executed)].cmd
                /\ Contains(prompt'.output_section,
                            execute_command(executed[Len(executed)].result)[1])
                /\ Contains(prompt'.error_section,
                            StderrHeader \o execute_command(executed[Len(executed)].result)[2])
                /\ executed' = executed
                /\ pc' = "idle"]_vars

\* a yy turn is over: one execution that failed, two model calls, the
\* error text in the analysis prompt
C26_Witness ==
    /\ variant = "scli" /\ pc = "idle" /\ outcome = "analysis"
    /\ strip(lower(decision)) = yy
    /\ calls = 2
    /\ Len(executed) = 1 /\ executed[1].result = "failed"
    /\ prompt.query = pending
    /\ Contains(prompt.error_section, err_text)

\* C27: the follow-up model call of a turn is made with a prompt that
\* differs from the prompt of the first call, whatever the pre_command
\* printed (nothing at all included).
C27_FollowUpPromptDiffers ==
    [][(variant = "cli2" /\ pc = "follow_model" /\ calls' = calls + 1) =>
            prompt' # prompt]_vars

\* user, assistant, user, assistant, ... in pairs
Alternating(h) ==
    /\ Len(h) % 2 = 0
    /\ \A i \in 1..Len(h) :
        h[i].role = IF i % 2 = 1 THEN "user" ELSE "assistant"

\* C28: the chat history starts empty and every completed chat turn adds
\* exactly the user's message and then the reply (an error text included) at
\* its end, so after k turns it holds 2k messages alternating user and
\* assistant; the engine's append of the prompt to the list it was handed
\* leaves no trace in it.
C28_ChatHistoryPairs ==
    [][/\ (pc = "idle" /\ pc' = "chat") => chat_session' = <<>>
       /\ (pc = "chat" /\ pc' = "chat") =>
            /\ chat_session' = chat_session \o <<UserMsg(query'), ReplyMsg(raw')>>
            /\ Alternating(chat_session')]_vars

\* two chat turns are done, the second one ended with an error text
C28_Witness ==
    /\ variant = "scli" /\ pc = "chat"
    /\ Len(chat_session) = 4
    /\ chat_session[4] = ReplyMsg(llm_error_text)
    /\ chat_session[3] = UserMsg(query)

====
